---- MODULE Spec2Model ----
(***************************************************************************)
(* A model of the collection log randomizer: the catalog build and its     *)
(* durable cache (collection_log_randomizer.py), the TempleOSRS progress   *)
(* client with its per-player cache (temple_api.py), the item lookup       *)
(* cache (item_lookup_service.py), and the resolution of unowned items,    *)
(* the catalog resource and the selection of the app (app.py).             *)
(***************************************************************************)
EXTENDS Integers, Sequences, FiniteSets, TLC

VARIABLES
    catalogFile,   \* collection_log_data.json: whether it exists, and its data
    scrapeCall,    \* what the last scrape_collection_log call did and returned
    clock,         \* time.time(), in seconds
    templeCache,   \* the files of TempleApi.cache_dir, by path
    templeCall,    \* the last get_collection_log call: arguments and outcome
    item_cache,    \* item_lookup_service.item_cache, the in-process dict
    itemCacheFile, \* item_cache/item_lookup_cache.json
    itemCall,      \* the last get_item call made on its own
    available_unowned_items,  \* st.session_state.available_unowned_items
    preloadCall,   \* the last preload_unowned_items call: what it went through
    collection_log_resource,  \* what st.cache_resource holds for
                              \* load_collection_log_data
    scrapes,       \* how often this process has read and has built the catalog
    selectCall     \* the last selection: the pool it drew from and its outcome

catalogVars == <<catalogFile, scrapeCall>>

templeVars == <<clock, templeCache, templeCall>>

itemVars == <<item_cache, itemCacheFile, itemCall>>

appVars == <<available_unowned_items, preloadCall,
             collection_log_resource, scrapes, selectCall>>

vars == <<catalogFile, scrapeCall, clock, templeCache, templeCall,
          item_cache, itemCacheFile, itemCall,
          available_unowned_items, preloadCall,
          collection_log_resource, scrapes, selectCall>>

None == "None"

\* a file on disk: absent, or holding a JSON value
NoFile == [exists |-> FALSE]
File(data) == [exists |-> TRUE, data |-> data]

\* ------------------------------------------------------------------------
\* Bounds of the model
\* ------------------------------------------------------------------------

\* longest document (number of sibling nodes) the build is run on
MaxNodes == 4

\* days the clock runs for
MaxDays == 1

\* ------------------------------------------------------------------------
\* The wiki document: a sequence of sibling nodes, some holding others
\* ------------------------------------------------------------------------

WikiBase == "https://oldschool.runescape.wiki"

\* titles that contain a ':' (namespace qualifier)
ColonTitles == {"File:Tanzanite fang.png"}

\* hrefs that start with '/w/'
InternalHrefs == {"/w/Tanzanite_fang", "/w/Tanzanite_fang_(uncharged)",
                  "/w/Magic_fang", "/w/File:Tanzanite_fang.png"}

\* hrefs that start with '/w/File:'
FileHrefs == {"/w/File:Tanzanite_fang.png"}

Link(href, title, img) == [href |-> href, title |-> title, img |-> img]

\* a table cell: its <a href title> links in document order and the src of
\* its first <img> (None when the cell has no image)
Cell(links, src) == [links |-> links, src |-> src]

CellFang ==
    Cell(<<Link("/w/Tanzanite_fang", "Tanzanite fang", TRUE),
           Link("/w/Tanzanite_fang", "Tanzanite fang", FALSE)>>,
         "/images/Tanzanite_fang.png")

CellFangUncharged ==
    Cell(<<Link("/w/Tanzanite_fang_(uncharged)", "Tanzanite fang", FALSE)>>, None)

CellMagic ==
    Cell(<<Link("/w/Magic_fang", "Magic fang", FALSE),
           Link("https://example.org/Magic_fang", "Magic fang", FALSE)>>,
         "/images/Magic_fang.png")

CellImageOnly ==
    Cell(<<Link("/w/File:Tanzanite_fang.png", "File:Tanzanite fang.png", FALSE),
           Link("/w/Magic_fang", "Magic fang", TRUE)>>,
         "/images/Magic_fang.png")

CellEmpty == Cell(<<>>, None)

H2(text) == [tag |-> "h2", text |-> text]
H3(text) == [tag |-> "h3", text |-> text]
Table(cells) == [tag |-> "table", cells |-> cells]
\* an element that holds other elements, such as the div of the table of
\* contents around its h2
Div(children) == [tag |-> "div", children |-> children]

\* a header without a span.mw-headline has text None
Nodes ==
    {H2("Bosses"), H2("Raids"), H2("Contents"), H2(None),
     H3("Zulrah"), H3("CoX"), H3(None),
     Table(<<CellFang, CellMagic>>),
     Table(<<CellFangUncharged, CellImageOnly, CellEmpty>>)}

SeqsUpTo(S, n) == UNION {[1..k -> S] : k \in 0..n}

\* the document of the specification's scenario: Bosses/Zulrah holds
\* {Tanzanite fang, Magic fang} and Raids/CoX holds {Tanzanite fang}
ScenarioDocument ==
    <<H2("Bosses"), H3("Zulrah"), Table(<<CellFang, CellMagic>>),
      H2("Raids"), H3("CoX"), Table(<<CellFangUncharged>>)>>

\* pages where a header lies inside another element: the table of
\* contents placed after the first section, and a section wrapped in a div
NestedDocuments ==
    {<<H2("Bosses"), H3("Zulrah"), Table(<<CellFang>>),
       Div(<<H2(None)>>),
       H2("Raids"), H3("CoX"), Table(<<CellFangUncharged>>)>>,
     <<H2("Bosses"), H3("Zulrah"),
       Div(<<H2("Raids"), H3("CoX"), Table(<<CellFangUncharged>>)>>),
       Table(<<CellFang, CellMagic>>)>>}

Documents == SeqsUpTo(Nodes, MaxNodes) \cup {ScenarioDocument} \cup NestedDocuments

\* ------------------------------------------------------------------------
\* scrape_collection_log: the scan of the document
\* ------------------------------------------------------------------------

\* a Python dict as a function; Put is d[k] = v
EmptyDict == <<>>
Put(d, k, v) == [x \in (DOMAIN d) \cup {k} |-> IF x = k THEN v ELSE d[x]]

SkippedCategories ==
    {"Contents", "Navigation menu", "Combat stats", "Ranks", "Notes and references"}

\* the links the inner loop does not skip
IsItemLink(link) ==
    /\ link.href \in InternalHrefs
    /\ link.title \notin ColonTitles
    /\ link.href \notin FileHrefs

\* the loop over a cell's links: the last item link without a direct <img>
\* child wins; the result is its index, 0 for main_link = None
RECURSIVE MainLink(_, _, _)
MainLink(links, i, main_link) ==
    IF i > Len(links) THEN main_link
    ELSE MainLink(links, i + 1,
                  IF IsItemLink(links[i]) /\ ~links[i].img THEN i ELSE main_link)

ImgUrl(cell) == IF cell.src # None THEN WikiBase \o cell.src ELSE ""

MakeItem(cell, main_link, category_name, current_subcategory) ==
    [name |-> main_link.title,
     url |-> WikiBase \o main_link.href,
     icon |-> ImgUrl(cell),
     category |-> category_name,
     subcategory |-> current_subcategory]

\* the items one table yields, in cell order
RECURSIVE TableItems(_, _, _, _)
TableItems(cells, i, category_name, current_subcategory) ==
    IF i > Len(cells) THEN <<>>
    ELSE LET main_link == MainLink(cells[i].links, 1, 0)
             rest == TableItems(cells, i + 1, category_name, current_subcategory)
         IN  IF main_link = 0 THEN rest
             ELSE <<MakeItem(cells[i], cells[i].links[main_link], category_name,
                             current_subcategory)>> \o rest

\* the state of the scan: collection_log, all_items, and the section and
\* subcategory the sibling walk is in (category None: no walk is running)
ScanStart ==
    [collection_log |-> EmptyDict, all_items |-> <<>>,
     category_name |-> None, current_subcategory |-> None]

ScanH2(st, node) ==
    IF node.text = None \/ node.text \in SkippedCategories
    THEN [st EXCEPT !.category_name = None, !.current_subcategory = None]
    ELSE [st EXCEPT !.collection_log = Put(@, node.text, EmptyDict),
                    !.category_name = node.text,
                    !.current_subcategory = None]

ScanH3(st, node) ==
    IF st.category_name = None \/ node.text = None THEN st
    ELSE [st EXCEPT !.current_subcategory = node.text,
                    !.collection_log =
                        Put(@, st.category_name,
                            Put(@[st.category_name], node.text, <<>>))]

ScanTable(st, node) ==
    IF st.category_name = None \/ st.current_subcategory = None THEN st
    ELSE LET c == st.category_name
             s == st.current_subcategory
             found == TableItems(node.cells, 1, c, s)
         IN  [st EXCEPT !.collection_log =
                            Put(@, c, Put(@[c], s, @[c][s] \o found)),
                        !.all_items = @ \o found]

ScanNode(st, node) ==
    CASE node.tag = "h2" -> ScanH2(st, node)
      [] node.tag = "h3" -> ScanH3(st, node)
      [] node.tag = "table" -> ScanTable(st, node)
      [] OTHER -> st

\* an element with the element that holds it (0: the top level) and its
\* place among its siblings
Place(node, parent, idx) == [node |-> node, parent |-> parent, idx |-> idx]

Inside(node, parent) ==
    [k \in 1..Len(node.children) |-> Place(node.children[k], parent, k)]

\* the elements of the document in document order
RECURSIVE Elements(_, _)
Elements(document, i) ==
    IF i > Len(document) THEN <<>>
    ELSE <<Place(document[i], 0, i)>>
         \o (IF document[i].tag = "div" THEN Inside(document[i], i) ELSE <<>>)
         \o Elements(document, i + 1)

\* the element and its siblings, in order
Siblings(document, place) ==
    IF place.parent = 0 THEN document ELSE document[place.parent].children

\* h2.find_next('h2'): the place in document order of the first h2 after
\* the p-th element, wherever it lies; 0 for None
FindNext(elements, p) ==
    LET later == {q \in (p + 1)..Len(elements) : elements[q].node.tag = "h2"}
    IN  IF later = {} THEN 0 ELSE CHOOSE q \in later : \A r \in later : q <= r

\* where 'current_element != next_h2' ends the walk over the siblings:
\* at the first sibling equal to next_h2, or after the last sibling
StopAt(siblings, idx, elements, p) ==
    LET q == FindNext(elements, p)
        hits == IF q = 0 THEN {}
                ELSE {j \in (idx + 1)..Len(siblings) :
                         siblings[j] = elements[q].node}
    IN  IF hits = {} THEN Len(siblings) + 1
        ELSE CHOOSE j \in hits : \A r \in hits : j <= r

\* the while loop over next_sibling: h3 and table elements act, every
\* other element is passed over
RECURSIVE Walk(_, _, _, _)
Walk(siblings, j, stop, st) ==
    IF j > Len(siblings) \/ j = stop THEN st
    ELSE Walk(siblings, j + 1, stop,
              IF siblings[j].tag \in {"h3", "table"}
              THEN ScanNode(st, siblings[j]) ELSE st)

\* the loop over soup.find_all('h2'), from the p-th element on
RECURSIVE ScanFrom(_, _, _, _)
ScanFrom(document, elements, p, st) ==
    IF p > Len(elements) THEN st
    ELSE IF elements[p].node.tag # "h2"
    THEN ScanFrom(document, elements, p + 1, st)
    ELSE LET section == ScanH2(st, elements[p].node)
             siblings == Siblings(document, elements[p])
         IN  ScanFrom(document, elements, p + 1,
                IF section.category_name = None THEN section
                ELSE Walk(siblings, elements[p].idx + 1,
                          StopAt(siblings, elements[p].idx, elements, p),
                          section))

Scan(document, i, st) == ScanFrom(document, Elements(document, i), 1, st)

\* ------------------------------------------------------------------------
\* scrape_collection_log: unique items
\* ------------------------------------------------------------------------

Source(item) == [category |-> item.category, subcategory |-> item.subcategory]

HasName(unique_items, name) ==
    \E k \in 1..Len(unique_items) : unique_items[k].name = name

NewEntry(item) ==
    [name |-> item.name, url |-> item.url, icon |-> item.icon,
     category |-> item.category, subcategory |-> item.subcategory,
     sources |-> <<>>]

\* AddOccurrence without the 'name not in unique_items' test
AddOccurrenceAlwaysNew(unique_items, item) ==
    Append(unique_items, [NewEntry(item) EXCEPT !.sources = <<Source(item)>>])

\* AddOccurrence that refreshes url and icon from every occurrence
AddOccurrenceLatestWins(unique_items, item) ==
    LET with == IF HasName(unique_items, item.name) THEN unique_items
                ELSE Append(unique_items, NewEntry(item))
    IN  [k \in 1..Len(with) |->
            IF with[k].name = item.name
            THEN [with[k] EXCEPT !.sources = Append(@, Source(item)),
                                 !.url = item.url, !.icon = item.icon]
            ELSE with[k]]

\* one turn of the loop over all_items; unique_items is the dict's values
\* in insertion order
AddOccurrence(unique_items, item) ==
    LET with == IF HasName(unique_items, item.name) THEN unique_items
                ELSE Append(unique_items, NewEntry(item))
    IN  [k \in 1..Len(with) |->
            IF with[k].name = item.name
            THEN [with[k] EXCEPT !.sources = Append(@, Source(item))]
            ELSE with[k]]

RECURSIVE UniqueItems(_, _, _)
UniqueItems(all_items, i, unique_items) ==
    IF i > Len(all_items) THEN unique_items
    ELSE UniqueItems(all_items, i + 1, AddOccurrence(unique_items, all_items[i]))

\* cache_data as built from a fetched document
BuildCacheData(document) ==
    LET st == Scan(document, 1, ScanStart)
    IN  [structure |-> st.collection_log,
         items |-> st.all_items,
         unique_items |-> UniqueItems(st.all_items, 1, <<>>)]

\* ------------------------------------------------------------------------
\* TempleOSRS responses: decoded JSON bodies
\* ------------------------------------------------------------------------

\* the value under "error": a dict with Code and Message, or a string
\* (kept in Message)
ErrorDict(code, message) == [isdict |-> TRUE, Code |-> code, Message |-> message]
ErrorString(message) == [isdict |-> FALSE, Code |-> 0, Message |-> message]
NoError == ErrorString("")

\* one value of the items mapping: a dict with or without "count", or not
\* a dict at all
Count(n) == [isdict |-> TRUE, has_count |-> TRUE, count |-> n]
NoCount == [isdict |-> TRUE, has_count |-> FALSE, count |-> 0]
NotADict == [isdict |-> FALSE, has_count |-> FALSE, count |-> 0]

\* the value under "data": null, or a dict with or without "items" (an
\* ordered mapping, as <<id, value>> pairs) and with or without the totals
DataDict(has_items, items) ==
    [isdict |-> TRUE, has_items |-> has_items, items |-> items,
     has_totals |-> FALSE,
     total_collections_available |-> 0, total_collections_finished |-> 0]
DataNull ==
    [isdict |-> FALSE, has_items |-> FALSE, items |-> <<>>,
     has_totals |-> FALSE,
     total_collections_available |-> 0, total_collections_finished |-> 0]

\* a decoded body: a dict with or without "error" and "data", or a list
Body(has_error, error, has_data, data) ==
    [isdict |-> TRUE, has_error |-> has_error, error |-> error,
     has_data |-> has_data, data |-> data]
EmptyBody == Body(FALSE, NoError, FALSE, DataNull)
ListBody == [EmptyBody EXCEPT !.isdict = FALSE]
ErrorBody(error) == Body(TRUE, error, FALSE, DataNull)
ItemsBody(items) == Body(FALSE, NoError, TRUE, DataDict(TRUE, items))

NotSynced == ErrorDict(402, "not synced")

Mappings ==
    {<<<<"1001", Count(0)>>, <<"1002", Count(3)>>>>,
     <<<<"1002", Count(1)>>, <<"1003", NoCount>>, <<"1001", NotADict>>>>}

\* what requests.get, raise_for_status and response.json() come to
Response(kind, body) == [kind |-> kind, body |-> body]
NoResponse == Response("none", EmptyBody)

TempleResponses ==
    {Response("transport", EmptyBody), Response("notjson", EmptyBody)}
    \cup {Response("json", b) :
            b \in {ErrorBody(NotSynced), ErrorBody(ErrorString("Player not found")),
                   EmptyBody, ListBody,
                   Body(FALSE, NoError, TRUE, DataDict(FALSE, <<>>)),
                   Body(FALSE, NoError, TRUE, DataNull)}
                  \cup {ItemsBody(m) : m \in Mappings}}

\* ------------------------------------------------------------------------
\* TempleApi
\* ------------------------------------------------------------------------

CACHE_DIR == "cache"

CACHE_TTL == 86400

\* player names, as sequences of characters
Rsns == {<<"a", " ", "b">>, <<"a", "_", "b">>, <<"A", " ", "b">>}

\* the characters c of the names with c.isalnum()
Alnum == {"a", "b", "A"}

CleanRsn(rsn) == [i \in 1..Len(rsn) |-> IF rsn[i] \in Alnum THEN rsn[i] ELSE "_"]

GetCachePath(rsn) == <<CACHE_DIR, "/">> \o CleanRsn(rsn) \o <<".json">>

CachePaths == {GetCachePath(rsn) : rsn \in Rsns}

TempleFile(data, mtime) == [exists |-> TRUE, data |-> data, mtime |-> mtime]
NoTempleFile == [exists |-> FALSE, data |-> EmptyBody, mtime |-> 0]

\* _is_cache_valid with '<=' for '<'
IsCacheValidInclusive(cache, cache_path, current_time) ==
    /\ cache[cache_path].exists
    /\ (current_time - cache[cache_path].mtime) <= CACHE_TTL

IsCacheValid(cache, cache_path, current_time) ==
    /\ cache[cache_path].exists
    /\ (current_time - cache[cache_path].mtime) < CACHE_TTL

\* the dicts the except clauses return
ParseError == ErrorBody(ErrorString("Error parsing TempleOSRS API response"))
ConnectError == ErrorBody(ErrorString("Error connecting to TempleOSRS API"))
UnexpectedError == ErrorBody(ErrorString("Unexpected error"))

\* 'return {"error": str(data["error"])}' for 'return {"error": data["error"]}'
ApiErrorAsString(data) == ErrorBody(ErrorString(data.error.Message))

ApiError(data) == ErrorBody(data.error)

\* owned_items counted with '>= 0' for '> 0'
OwnedItemsFromZero(items) ==
    Cardinality({k \in 1..Len(items) :
                    items[k][2].isdict
                    /\ (IF items[k][2].has_count THEN items[k][2].count ELSE 0) >= 0})

OwnedItems(items) ==
    Cardinality({k \in 1..Len(items) :
                    items[k][2].isdict
                    /\ (IF items[k][2].has_count THEN items[k][2].count ELSE 0) > 0})

WithStats(data) ==
    [data EXCEPT !.data.has_totals = TRUE,
                 !.data.total_collections_available = Len(data.data.items),
                 !.data.total_collections_finished = OwnedItems(data.data.items)]

\* the try block on a decoded body: what is returned, and whether it is
\* written to the cache
Decoded(data) ==
    IF data.isdict /\ data.has_error
    THEN [result |-> ApiError(data), write |-> FALSE]
    ELSE IF data.isdict /\ data.has_data /\ ~data.data.isdict
    THEN [result |-> UnexpectedError, write |-> FALSE]
    ELSE IF data.isdict /\ data.has_data /\ data.data.has_items
    THEN [result |-> WithStats(data), write |-> TRUE]
    ELSE [result |-> data, write |-> TRUE]

\* the try block that writes what an except clause returns to the cache
FetchedCachesErrors(response) ==
    CASE response.kind = "transport" -> [result |-> ConnectError, write |-> TRUE]
      [] response.kind = "notjson" -> [result |-> ParseError, write |-> TRUE]
      [] OTHER -> [Decoded(response.body) EXCEPT !.write = TRUE]

Fetched(response) ==
    CASE response.kind = "transport" -> [result |-> ConnectError, write |-> FALSE]
      [] response.kind = "notjson" -> [result |-> ParseError, write |-> FALSE]
      [] OTHER -> Decoded(response.body)

\* get_collection_log: the returned dict, the cache directory afterwards,
\* and whether a request was made
GetCollectionLog(cache, current_time, rsn, force_refresh, response) ==
    LET cache_path == GetCachePath(rsn)
    IN  IF ~force_refresh /\ IsCacheValid(cache, cache_path, current_time)
        THEN [result |-> cache[cache_path].data, cache |-> cache,
              fetched |-> FALSE]
        ELSE LET got == Fetched(response)
             IN  [result |-> got.result,
                  cache |-> IF got.write
                            THEN [cache EXCEPT ![cache_path] =
                                     TempleFile(got.result, current_time)]
                            ELSE cache,
                  fetched |-> TRUE]

\* app.py's reading of a returned dict
ClassifyResult(data) ==
    IF data.isdict /\ data.has_error
    THEN IF data.error.isdict /\ data.error.Code = 402
         THEN "not synced" ELSE "error"
    ELSE "ok"

NoTempleCall ==
    [rsn |-> <<>>, force_refresh |-> FALSE, fetched |-> FALSE,
     response |-> NoResponse, result |-> EmptyBody]

TempleStart ==
    /\ clock = 0
    /\ templeCache = [cache_path \in CachePaths |-> NoTempleFile]
    /\ templeCall = NoTempleCall

\* the times the clock is read at: around each day's end
TimePoints == {0} \cup {d * CACHE_TTL - e : d \in 1..MaxDays, e \in {0, 1}}

Tick ==
    /\ \E t \in TimePoints : t > clock /\ clock' = t
    /\ UNCHANGED <<templeCache, templeCall>>
    /\ UNCHANGED <<catalogVars, itemVars, appVars>>

CallGetCollectionLog ==
    /\ \E rsn \in Rsns, force_refresh \in BOOLEAN, response \in TempleResponses :
          LET out == GetCollectionLog(templeCache, clock, rsn, force_refresh,
                                      response)
          IN  /\ templeCache' = out.cache
              /\ templeCall' = [rsn |-> rsn, force_refresh |-> force_refresh,
                                fetched |-> out.fetched,
                                response |-> IF out.fetched THEN response
                                             ELSE NoResponse,
                                result |-> out.result]
    /\ UNCHANGED clock
    /\ UNCHANGED <<catalogVars, itemVars, appVars>>

\* ------------------------------------------------------------------------
\* item_lookup_service
\* ------------------------------------------------------------------------

ItemIds == {"1001", "1002", "1003"}

\* int(item_id)
IntOf(item_id) ==
    CASE item_id = "1001" -> 1001
      [] item_id = "1002" -> 1002
      [] item_id = "1003" -> 1003

IconBase ==
    "https://raw.githubusercontent.com/0xNeffarion/osrsreboxed-db/master/items-icons/"

\* a looked-up item, or None (found FALSE)
Item(id, name, examine, icon, members, tradeable, wiki_url) ==
    [found |-> TRUE, id |-> id, name |-> name, examine |-> examine,
     icon |-> icon, members |-> members, tradeable |-> tradeable,
     wiki_url |-> wiki_url]
NoItem == [found |-> FALSE, id |-> "", name |-> "", examine |-> "", icon |-> "",
           members |-> FALSE, tradeable |-> FALSE, wiki_url |-> ""]

\* the osrsreboxed database: lookup_by_item_id, with name "" for no item
DbName(item_id) ==
    CASE item_id = "1001" -> ""
      [] item_id = "1002" -> "Abyssal whip"
      [] item_id = "1003" -> "Tanzanite Fang"

\* the standardized item object built from a database record
Standardized(item_id) ==
    Item(item_id, DbName(item_id), "It's an item.",
         IconBase \o item_id \o ".png", TRUE, FALSE,
         WikiBase \o "/w/" \o DbName(item_id))

\* one slot of item_cache: no key, or a key with an item or None
NotCached == [cached |-> FALSE, item |-> NoItem]
Cached(item) == [cached |-> TRUE, item |-> item]

EmptyItemCache == [item_id \in ItemIds |-> NotCached]

\* the cache file: absent, holding a dumped item_cache, or cut short by a
\* dump that failed midway
NoItemFile == [exists |-> FALSE, readable |-> FALSE, data |-> EmptyItemCache]
ItemFile(data) == [exists |-> TRUE, readable |-> TRUE, data |-> data]
BrokenItemFile == [exists |-> TRUE, readable |-> FALSE, data |-> EmptyItemCache]

\* how a save_cache call ends: it writes the file, open() raises, or
\* json.dump raises after open() has truncated the file
SaveOutcomes == {"saved", "open raises", "dump raises"}

SaveCache(file, cache, save) ==
    CASE save = "saved" -> ItemFile(cache)
      [] save = "open raises" -> file
      [] save = "dump raises" -> BrokenItemFile

\* module import: item_cache is the file's content when it loads
LoadItemCache(file) ==
    IF file.exists /\ file.readable THEN file.data ELSE EmptyItemCache

\* get_item that keeps no entry for an id the database does not have
GetItemNoTombstone(cache, file, item_id, raises, save) ==
    IF cache[item_id].cached
    THEN [result |-> cache[item_id].item, cache |-> cache, file |-> file,
          looked_up |-> FALSE]
    ELSE IF raises \/ DbName(item_id) = ""
    THEN [result |-> NoItem, cache |-> cache, file |-> file, looked_up |-> TRUE]
    ELSE LET stored == [cache EXCEPT ![item_id] = Cached(Standardized(item_id))]
         IN  [result |-> Standardized(item_id), cache |-> stored,
              file |-> SaveCache(file, stored, save), looked_up |-> TRUE]

\* get_item that treats a lookup that raised as an item not found
GetItemTombstoneOnRaise(cache, file, item_id, raises, save) ==
    IF cache[item_id].cached
    THEN [result |-> cache[item_id].item, cache |-> cache, file |-> file,
          looked_up |-> FALSE]
    ELSE LET result == IF raises \/ DbName(item_id) = "" THEN NoItem
                       ELSE Standardized(item_id)
             stored == [cache EXCEPT ![item_id] = Cached(result)]
         IN  [result |-> result, cache |-> stored,
              file |-> SaveCache(file, stored, save), looked_up |-> TRUE]

\* get_item: the returned item, the dict and the file afterwards, and
\* whether the database was asked; raises says the import or the database
\* lookup raises on this call
GetItem(cache, file, item_id, raises, save) ==
    IF cache[item_id].cached
    THEN [result |-> cache[item_id].item, cache |-> cache, file |-> file,
          looked_up |-> FALSE]
    ELSE IF raises
    THEN [result |-> NoItem, cache |-> cache, file |-> file, looked_up |-> TRUE]
    ELSE LET result == IF DbName(item_id) = "" THEN NoItem
                       ELSE Standardized(item_id)
             stored == [cache EXCEPT ![item_id] = Cached(result)]
         IN  [result |-> result, cache |-> stored,
              file |-> SaveCache(file, stored, save), looked_up |-> TRUE]

\* the path a get_item call took: the cache hit of line 56, an exception
\* caught at lines 93-98, the not-found branch of line 71 or the record
\* of line 91
Outcome(out, raises) ==
    IF ~out.looked_up THEN "hit"
    ELSE IF raises THEN "raised"
    ELSE IF out.result.found THEN "found"
    ELSE "not found"

NoItemCall == [item_id |-> "", result |-> NoItem, looked_up |-> FALSE,
               outcome |-> "none", save |-> "none"]

ItemStart ==
    /\ item_cache = EmptyItemCache
    /\ itemCacheFile = NoItemFile
    /\ itemCall = NoItemCall

CallGetItem ==
    /\ \E item_id \in ItemIds, raises \in BOOLEAN, save \in SaveOutcomes :
          LET out == GetItem(item_cache, itemCacheFile, item_id, raises, save)
          IN  /\ item_cache' = out.cache
              /\ itemCacheFile' = out.file
              /\ itemCall' = [item_id |-> item_id, result |-> out.result,
                              looked_up |-> out.looked_up,
                              outcome |-> Outcome(out, raises),
                              save |-> IF Outcome(out, raises)
                                            \in {"found", "not found"}
                                       THEN save ELSE "none"]
    /\ UNCHANGED <<catalogVars, templeVars, appVars>>

\* ------------------------------------------------------------------------
\* TempleApi.get_unowned_items and app.preload_unowned_items
\* ------------------------------------------------------------------------

\* item_data.get("count", 0)
CountOrZero(item_data) == IF item_data.has_count THEN item_data.count ELSE 0

IsUnowned(pair) == pair[2].isdict /\ CountOrZero(pair[2]) = 0

\* the ids get_unowned_items takes from a get_collection_log result
UnownedIds(data) ==
    IF data.isdict /\ data.has_error THEN <<>>
    ELSE IF data.isdict /\ data.has_data /\ data.data.isdict /\ data.data.has_items
    THEN LET unowned == SelectSeq(data.data.items, IsUnowned)
         IN  [k \in 1..Len(unowned) |-> unowned[k][1]]
    ELSE <<>>

\* str.lower() on the names of the model
Lower(name) ==
    CASE name = "Tanzanite fang" -> "tanzanite fang"
      [] name = "Tanzanite Fang" -> "tanzanite fang"
      [] name = "Magic fang" -> "magic fang"
      [] name = "Abyssal whip" -> "abyssal whip"
      [] OTHER -> name

\* local_items_by_name: for each lowered non-empty name the last item of
\* local_data that has it
LocalItemsByName(local_data) ==
    LET named == {k \in 1..Len(local_data) : Lower(local_data[k].name) # ""}
    IN  [name \in {Lower(local_data[k].name) : k \in named} |->
            LET last == CHOOSE k \in named :
                           /\ Lower(local_data[k].name) = name
                           /\ \A j \in named :
                                 Lower(local_data[j].name) = name => j <= k
            IN  local_data[last]]

LookedUpItem(item_id, item_details) ==
    [id |-> IntOf(item_id),
     name |-> item_details.name,
     category |-> "Unknown",
     subcategory |-> "Unknown",
     icon |-> item_details.icon,
     sources |-> <<[category |-> "Temple Mode", subcategory |-> "Unowned Item"]>>]

\* ResolveOne that looks the name up as it is spelt
ResolveOneExactCase(local_items_by_name, item_id, item_details) ==
    IF item_details.name \in DOMAIN local_items_by_name
    THEN local_items_by_name[item_details.name]
    ELSE LookedUpItem(item_id, item_details)

\* what is appended to available_items for a found item
ResolveOne(local_items_by_name, item_id, item_details) ==
    IF Lower(item_details.name) \in DOMAIN local_items_by_name
    THEN local_items_by_name[Lower(item_details.name)]
    ELSE LookedUpItem(item_id, item_details)

\* the loop over unowned_ids: available_items, what get_item returned for
\* each id, and the item cache and its file afterwards
RECURSIVE LookUpAll(_, _, _, _, _, _)
LookUpAll(unowned_ids, i, local_items_by_name, st, raises, save) ==
    IF i > Len(unowned_ids) THEN st
    ELSE LET item_id == unowned_ids[i]
             out == GetItem(st.cache, st.file, item_id, item_id \in raises, save)
         IN  LookUpAll(unowned_ids, i + 1, local_items_by_name,
                [cache |-> out.cache,
                 file |-> out.file,
                 details |-> Append(st.details, out.result),
                 outcomes |-> Append(st.outcomes,
                                     Outcome(out, item_id \in raises)),
                 available_items |->
                    IF out.result.found
                    THEN Append(st.available_items,
                                ResolveOne(local_items_by_name, item_id, out.result))
                    ELSE st.available_items],
                raises, save)

\* the value st.cache_resource keeps for load_collection_log_data: none
\* before the first call that returns, then the object that call returned
\* instance tells the objects apart: the n-th object that
\* scrape_collection_log has returned in this process
NoResource == [loaded |-> FALSE, data |-> BuildCacheData(<<>>), instance |-> 0]
Resource(data, instance) == [loaded |-> TRUE, data |-> data, instance |-> instance]

\* load_collection_log_data(): the catalog the app loaded when it started
LoadCollectionLogData == collection_log_resource.data

NoScrapes == [loaded |-> 0, built |-> 0]

NoSelectCall ==
    [mode |-> "none", pool |-> <<>>, outcome |-> "none", choice |-> 0,
     instance |-> 0, fallback |-> FALSE]

NoPreloadCall ==
    [rsn |-> <<>>, progress |-> EmptyBody, unowned_ids |-> <<>>, details |-> <<>>,
     outcomes |-> <<>>]

\* st.session_state of a new session
SessionStart ==
    /\ available_unowned_items = <<>>
    /\ preloadCall = NoPreloadCall
    /\ selectCall = NoSelectCall

AppStart ==
    /\ SessionStart
    /\ collection_log_resource = NoResource
    /\ scrapes = NoScrapes

\* the player names and the answers of the service the app is run with
ResolveRsns == {<<"a", " ", "b">>}

\* the ids the database lookup raises for during one batch: none, one, or
\* all of them (the import fails)
RaiseSets == {{}, ItemIds} \cup {{item_id} : item_id \in ItemIds}

ResolveMappings ==
    {<<<<"1001", Count(0)>>, <<"1002", Count(3)>>>>,
     <<<<"1003", Count(0)>>, <<"1001", Count(0)>>, <<"1002", Count(0)>>>>,
     <<<<"1002", NoCount>>, <<"1003", Count(1)>>, <<"1001", NotADict>>>>}

ResolveResponses ==
    {Response("transport", EmptyBody)}
    \cup {Response("json", ItemsBody(m)) : m \in ResolveMappings}

\* preload_unowned_items(rsn), with the get_collection_log call that
\* get_unowned_items makes and the get_item call for every unowned id
PreloadUnownedItems ==
    /\ collection_log_resource.loaded
    /\ \E rsn \in ResolveRsns, response \in ResolveResponses,
          raises \in RaiseSets, save \in SaveOutcomes :
          LET log == GetCollectionLog(templeCache, clock, rsn, FALSE, response)
              unowned_ids == UnownedIds(log.result)
              done == LookUpAll(unowned_ids, 1,
                                LocalItemsByName(LoadCollectionLogData.unique_items),
                                [cache |-> item_cache, file |-> itemCacheFile,
                                 details |-> <<>>, outcomes |-> <<>>,
                                 available_items |-> <<>>],
                                raises, save)
          IN  /\ templeCache' = log.cache
              /\ templeCall' = [rsn |-> rsn, force_refresh |-> FALSE,
                                fetched |-> log.fetched,
                                response |-> IF log.fetched THEN response
                                             ELSE NoResponse,
                                result |-> log.result]
              /\ item_cache' = done.cache
              /\ itemCacheFile' = done.file
              /\ available_unowned_items' = done.available_items
              /\ preloadCall' = [rsn |-> rsn, progress |-> log.result,
                                 unowned_ids |-> unowned_ids,
                                 details |-> done.details,
                                 outcomes |-> done.outcomes]
    /\ UNCHANGED <<clock, itemCall>>
    /\ UNCHANGED <<collection_log_resource, scrapes, selectCall>>
    /\ UNCHANGED catalogVars

\* the process stops and starts again: the module is imported anew and
\* the session state starts empty
Restart ==
    /\ item_cache' = LoadItemCache(itemCacheFile)
    /\ itemCall' = NoItemCall
    /\ available_unowned_items' = <<>>
    /\ preloadCall' = NoPreloadCall
    /\ collection_log_resource' = NoResource
    /\ scrapes' = NoScrapes
    /\ selectCall' = NoSelectCall
    /\ UNCHANGED itemCacheFile
    /\ UNCHANGED <<catalogVars, templeVars>>

\* ------------------------------------------------------------------------
\* scrape_collection_log as an operation on the durable cache
\* ------------------------------------------------------------------------

NoCall == [kind |-> "none"]

\* ScrapeLoad without the os.path.exists test: the page is scraped again
ScrapeLoadRebuilds ==
    /\ catalogFile.exists
    /\ \E document \in Documents :
          LET cache_data == BuildCacheData(document)
          IN  /\ catalogFile' = File(cache_data)
              /\ scrapeCall' = [kind |-> "built", data |-> cache_data,
                                fetched |-> TRUE, wrote |-> TRUE]
    /\ UNCHANGED <<templeVars, itemVars, appVars>>

\* the cache file exists: it is loaded and returned
ScrapeLoad ==
    /\ catalogFile.exists
    /\ scrapeCall' = [kind |-> "loaded", data |-> catalogFile.data,
                      fetched |-> FALSE, wrote |-> FALSE]
    /\ UNCHANGED catalogFile
    /\ UNCHANGED <<templeVars, itemVars, appVars>>

\* no cache file: the page is fetched, scanned, saved and returned
ScrapeBuild ==
    /\ ~catalogFile.exists
    /\ \E document \in Documents :
          LET cache_data == BuildCacheData(document)
          IN  /\ catalogFile' = File(cache_data)
              /\ scrapeCall' = [kind |-> "built", data |-> cache_data,
                                fetched |-> TRUE, wrote |-> TRUE]
    /\ UNCHANGED <<templeVars, itemVars, appVars>>

\* no cache file and requests.get or raise_for_status raises
ScrapeFetchError ==
    /\ ~catalogFile.exists
    /\ scrapeCall' = [kind |-> "raised", fetched |-> TRUE, wrote |-> FALSE]
    /\ UNCHANGED catalogFile
    /\ UNCHANGED <<templeVars, itemVars, appVars>>

\* someone deletes collection_log_data.json by hand; no call has been made
\* on the new state of the disk yet
DeleteCatalogFile ==
    /\ catalogFile.exists
    /\ catalogFile' = NoFile
    /\ scrapeCall' = NoCall
    /\ UNCHANGED <<templeVars, itemVars, appVars>>

CatalogInit ==
    /\ catalogFile = NoFile
    /\ scrapeCall = NoCall
    /\ TempleStart
    /\ ItemStart
    /\ AppStart

CatalogNext ==
    \/ ScrapeLoad
    \/ ScrapeBuild
    \/ ScrapeFetchError
    \/ DeleteCatalogFile

SpecCatalog == CatalogInit /\ [][CatalogNext]_vars

\* ------------------------------------------------------------------------
\* Properties of the catalog
\* ------------------------------------------------------------------------

RECURSIVE SumSources(_, _)
SumSources(unique_items, i) ==
    IF i > Len(unique_items) THEN 0
    ELSE Len(unique_items[i].sources) + SumSources(unique_items, i + 1)

\* the index of the first occurrence of a name in items (0 when absent)
FirstIndex(items, name) ==
    IF \E k \in 1..Len(items) : items[k].name = name
    THEN CHOOSE k \in 1..Len(items) :
            /\ items[k].name = name
            /\ \A j \in 1..(k - 1) : items[j].name # name
    ELSE 0

RECURSIVE SourcesOf(_, _, _)
SourcesOf(items, name, i) ==
    IF i > Len(items) THEN <<>>
    ELSE (IF items[i].name = name THEN <<Source(items[i])>> ELSE <<>>)
         \o SourcesOf(items, name, i + 1)

Built == scrapeCall.kind = "built"

\* C1: in every catalog the build produces, no two unique_items share a
\* name, and the source tuples of all unique_items together are as many as
\* the occurrences in items.
C1_UniqueNamesAndSourceCount ==
    Built =>
        LET entries == scrapeCall.data.unique_items
            occurrences == scrapeCall.data.items
        IN  /\ \A i, j \in 1..Len(entries) :
                    entries[i].name = entries[j].name => i = j
            /\ SumSources(entries, 1) = Len(occurrences)

\* a built catalog with several entries, one of them placed more than once
C1_Witness ==
    /\ Built
    /\ Len(scrapeCall.data.unique_items) >= 2
    /\ Len(scrapeCall.data.items) > Len(scrapeCall.data.unique_items)

\* C2: the entries of a built catalog stand in the order of each name's
\* first occurrence, every occurring name has an entry, each entry keeps
\* the url and icon of its first occurrence, and its sources are the
\* {category, subcategory} pairs of all occurrences of its name, in
\* occurrence order, repeats included.
C2_OrderPreservingFold ==
    Built =>
        LET entries == scrapeCall.data.unique_items
            occurrences == scrapeCall.data.items
        IN  /\ \A k \in 1..Len(occurrences) :
                    \E i \in 1..Len(entries) : entries[i].name = occurrences[k].name
            /\ \A i \in 1..Len(entries) :
                    LET first == FirstIndex(occurrences, entries[i].name)
                    IN  /\ first > 0
                        /\ entries[i].url = occurrences[first].url
                        /\ entries[i].icon = occurrences[first].icon
                        /\ entries[i].sources =
                               SourcesOf(occurrences, entries[i].name, 1)
            /\ \A i, j \in 1..Len(entries) :
                    i < j => FirstIndex(occurrences, entries[i].name)
                               < FirstIndex(occurrences, entries[j].name)

\* the scenario of the specification: two entries, and the Tanzanite fang
\* of Bosses/Zulrah met again in Raids/CoX under another url
C2_Witness ==
    /\ Built
    /\ Len(scrapeCall.data.unique_items) = 2
    /\ scrapeCall.data.unique_items[1].name = "Tanzanite fang"
    /\ scrapeCall.data.unique_items[1].url = WikiBase \o "/w/Tanzanite_fang"
    /\ scrapeCall.data.unique_items[1].sources =
           <<[category |-> "Bosses", subcategory |-> "Zulrah"],
             [category |-> "Raids", subcategory |-> "CoX"]>>
    /\ scrapeCall.data.items[3].url = WikiBase \o "/w/Tanzanite_fang_(uncharged)"

\* C3: while the cache file exists, every scrape_collection_log call
\* returns the unique_items of the file as it stands, fetches no document
\* and leaves the file as it is.
C3_CachedLoadIsIdempotent ==
    [][(catalogFile.exists /\ ~DeleteCatalogFile) =>
          /\ scrapeCall'.kind = "loaded"
          /\ scrapeCall'.data.unique_items = catalogFile.data.unique_items
          /\ ~scrapeCall'.fetched
          /\ ~scrapeCall'.wrote
          /\ catalogFile' = catalogFile]_vars

\* a call served from a persisted catalog that has entries
C3_Witness ==
    /\ catalogFile.exists
    /\ scrapeCall.kind = "loaded"
    /\ Len(catalogFile.data.unique_items) >= 2

\* ------------------------------------------------------------------------
\* The progress client on its own
\* ------------------------------------------------------------------------

CatalogStart ==
    /\ catalogFile = NoFile
    /\ scrapeCall = NoCall

TempleInit ==
    /\ TempleStart
    /\ CatalogStart
    /\ ItemStart
    /\ AppStart

TempleNext ==
    \/ Tick
    \/ CallGetCollectionLog

SpecTemple == TempleInit /\ [][TempleNext]_vars

\* ------------------------------------------------------------------------
\* Properties of the progress client
\* ------------------------------------------------------------------------

\* in SpecTemple every step that leaves the clock alone is a
\* get_collection_log call; templeCall' holds its arguments and outcome
TempleCallStep == clock' = clock

\* the cache file of the player the step's call is for, before the call
FileBefore == templeCache[GetCachePath(templeCall'.rsn)]

\* the cache file of the player of the last call
FileNow == templeCache[GetCachePath(templeCall.rsn)]

IsErrorObject(response) ==
    response.kind = "json" /\ response.body.isdict /\ response.body.has_error

IsItemsResponse(response) ==
    /\ response.kind = "json"
    /\ response.body.isdict
    /\ ~response.body.has_error
    /\ response.body.has_data
    /\ response.body.data.isdict
    /\ response.body.data.has_items

\* C4: a call with force_refresh false that finds a cache file younger
\* than 86400 seconds makes no request and returns the file's snapshot;
\* with an older file, no file, or force_refresh true it makes a request.
C4_FreshCacheMeansNoRequest ==
    [][TempleCallStep =>
          IF /\ ~templeCall'.force_refresh
             /\ FileBefore.exists
             /\ clock - FileBefore.mtime < 86400
          THEN /\ ~templeCall'.fetched
               /\ templeCall'.result = FileBefore.data
               /\ templeCache' = templeCache
          ELSE templeCall'.fetched]_vars

\* a snapshot served from a file one second short of a day old
C4_Witness ==
    /\ templeCall.rsn \in Rsns
    /\ ~templeCall.force_refresh
    /\ ~templeCall.fetched
    /\ FileNow.exists
    /\ clock - FileNow.mtime = 86399
    /\ templeCall.result = FileNow.data

NumberWithCount(items) ==
    Cardinality({k \in 1..Len(items) :
                    /\ items[k][2].isdict
                    /\ items[k][2].has_count
                    /\ items[k][2].count > 0})

\* C5: after a request answered with an items mapping, the returned
\* snapshot is the response with total_collections_available the size of
\* the mapping and total_collections_finished the number of its entries
\* with count > 0, and the player's cache file holds that snapshot.
C5_TotalsDerivedAndCached ==
    (templeCall.fetched /\ IsItemsResponse(templeCall.response)) =>
        LET items == templeCall.response.body.data.items
            result == templeCall.result
        IN  /\ result.data.has_totals
            /\ result.data.total_collections_available = Len(items)
            /\ result.data.total_collections_finished = NumberWithCount(items)
            /\ result.data.items = items
            /\ ~result.has_error
            /\ FileNow.exists
            /\ FileNow.data = result
            /\ FileNow.mtime <= clock

\* a fetched mapping with one owned and one unowned item
C5_Witness ==
    /\ templeCall.fetched
    /\ IsItemsResponse(templeCall.response)
    /\ templeCall.result.data.total_collections_available = 2
    /\ templeCall.result.data.total_collections_finished = 1

\* C6: a request answered with an error object returns a dict whose
\* "error" is the remote payload as received and writes no cache file; a
\* payload with Code 402 reads as not synced where a transport failure
\* reads as a plain error.
C6_RemoteErrorReturnedUnchanged ==
    [][(TempleCallStep /\ templeCall'.fetched) =>
          /\ IsErrorObject(templeCall'.response) =>
                /\ templeCall'.result.has_error
                /\ templeCall'.result.error = templeCall'.response.body.error
                /\ ~templeCall'.result.has_data
                /\ templeCache' = templeCache
                /\ (/\ templeCall'.response.body.error.isdict
                    /\ templeCall'.response.body.error.Code = 402)
                      => ClassifyResult(templeCall'.result) = "not synced"
          /\ templeCall'.response.kind = "transport" =>
                ClassifyResult(templeCall'.result) = "error"]_vars

\* a not-synced answer to a forced refresh of a player who has a snapshot
C6_Witness ==
    /\ templeCall.fetched
    /\ templeCall.response.kind = "json"
    /\ templeCall.response.body.error = NotSynced
    /\ templeCall.result.error = NotSynced
    /\ FileNow.exists

\* a response that is not in the expected shape
IsMalformed(response) ==
    \/ response.kind = "notjson"
    \/ /\ response.kind = "json"
       /\ ~IsErrorObject(response)
       /\ ~IsItemsResponse(response)

\* C7: every response that is not in the expected shape is returned as
\* the parse error, which is not the transport error, and is never
\* returned or cached as a snapshot.
C7_MalformedIsParseError ==
    (templeCall.fetched /\ IsMalformed(templeCall.response)) =>
        /\ templeCall.result = ParseError
        /\ templeCall.result # ConnectError
        /\ ClassifyResult(templeCall.result) # "ok"
        /\ FileNow.exists => FileNow.data # templeCall.response.body

\* a returned or stored dict that is a snapshot with its items
IsSnapshot(data) ==
    /\ data.isdict
    /\ ~data.has_error
    /\ data.has_data
    /\ data.data.isdict
    /\ data.data.has_items

IsFailure(response) ==
    \/ response.kind \in {"transport", "notjson"}
    \/ IsErrorObject(response)

\* the last call was a failed fetch and the step is a call with
\* force_refresh false for the same player, whose cache file holds a
\* snapshot
CallAfterFailure ==
    /\ TempleCallStep
    /\ templeCall.fetched
    /\ IsFailure(templeCall.response)
    /\ templeCall'.rsn = templeCall.rsn
    /\ ~templeCall'.force_refresh
    /\ FileBefore.exists
    /\ IsSnapshot(FileBefore.data)

\* C8 as amended: a failed fetch, forced or not, leaves every cache file
\* as it was; the next call with force_refresh false for that player
\* returns the stored snapshot while the file is younger than 86400
\* seconds, and makes a new request once it is not.
C8_FailedFetchKeepsFreshSnapshot ==
    [][/\ (TempleCallStep /\ templeCall'.fetched
             /\ IsFailure(templeCall'.response))
            => templeCache' = templeCache
       /\ CallAfterFailure =>
             IF clock - FileBefore.mtime < 86400
             THEN /\ ~templeCall'.fetched
                  /\ templeCall'.result = FileBefore.data
             ELSE templeCall'.fetched]_vars

\* C8 as stated: after a failed fetch the stored snapshot is unchanged and
\* later calls with force_refresh false still return it.
C8_FailedFetchKeepsSnapshot ==
    [][/\ (TempleCallStep /\ templeCall'.fetched
             /\ IsFailure(templeCall'.response))
            => templeCache' = templeCache
       /\ CallAfterFailure => templeCall'.result = FileBefore.data]_vars

\* a forced refresh that failed for a player whose snapshot is on disk
C8_Witness ==
    /\ templeCall.fetched
    /\ templeCall.force_refresh
    /\ IsFailure(templeCall.response)
    /\ FileNow.exists
    /\ IsSnapshot(FileNow.data)

\* C9: when the only snapshot on disk is the one the last call fetched for
\* its player, a call for any other identifier is not served from the
\* cache: it makes a request.
C9_CacheKeyedByIdentifier ==
    [][(/\ TempleCallStep
        /\ templeCall.fetched
        /\ IsSnapshot(templeCall.result)
        /\ Cardinality({path \in CachePaths : templeCache[path].exists}) = 1
        /\ templeCall'.rsn # templeCall.rsn)
          => templeCall'.fetched]_vars

\* ------------------------------------------------------------------------
\* The catalog held by the app, and the selection
\* ------------------------------------------------------------------------

\* how many catalog reads and how many builds one process is followed for
MaxScrapes == 2

\* the pages the catalog of the running app was built from
ResolveDocuments == {<<>>, ScenarioDocument}

\* scrape_collection_log(): what the call did, the file afterwards and the
\* object it returned, if it returned
ScrapeCollectionLog(file, document, fetch_ok) ==
    IF file.exists
    THEN [call |-> [kind |-> "loaded", data |-> file.data,
                    fetched |-> FALSE, wrote |-> FALSE],
          file |-> file, returned |-> TRUE, data |-> file.data]
    ELSE IF ~fetch_ok
    THEN [call |-> [kind |-> "raised", fetched |-> TRUE, wrote |-> FALSE],
          file |-> file, returned |-> FALSE, data |-> BuildCacheData(<<>>)]
    ELSE LET cache_data == BuildCacheData(document)
         IN  [call |-> [kind |-> "built", data |-> cache_data,
                        fetched |-> TRUE, wrote |-> TRUE],
              file |-> File(cache_data), returned |-> TRUE, data |-> cache_data]

\* the reads of the cache file and the builds, with this call counted
Counted(n, out) ==
    [loaded |-> n.loaded + (IF out.call.kind = "loaded" THEN 1 ELSE 0),
     built |-> n.built + (IF out.call.kind = "built" THEN 1 ELSE 0)]

CanScrape == scrapes.loaded < MaxScrapes /\ scrapes.built < MaxScrapes

\* load_collection_log_data() when st.cache_resource holds nothing yet:
\* scrape_collection_log runs and what it returns is kept; with a value
\* kept the call returns that object and changes nothing
LoadCollectionLogDataCall ==
    /\ ~collection_log_resource.loaded
    /\ CanScrape
    /\ \E document \in ResolveDocuments, fetch_ok \in BOOLEAN :
          LET out == ScrapeCollectionLog(catalogFile, document, fetch_ok)
              n == Counted(scrapes, out)
          IN  /\ catalogFile' = out.file
              /\ scrapeCall' = out.call
              /\ scrapes' = n
              /\ collection_log_resource' =
                    IF out.returned THEN Resource(out.data, n.loaded + n.built)
                    ELSE collection_log_resource
    /\ UNCHANGED <<available_unowned_items, preloadCall, selectCall>>
    /\ UNCHANGED <<templeVars, itemVars>>

\* the indices random.choice can return for a pool
Choices(pool) == 1..Len(pool)

\* GetRandomCollectionLogItem without the tests of lines 183 and 188:
\* random.choice raises IndexError on an empty pool
GetRandomCollectionLogItemUnguarded(data, include_duplicates, choice) ==
    LET pool == IF include_duplicates THEN data.items ELSE data.unique_items
    IN  [mode |-> IF include_duplicates THEN "all" ELSE "unique",
         pool |-> pool,
         outcome |-> IF pool # <<>> THEN "entry" ELSE "IndexError",
         choice |-> IF pool # <<>> THEN choice ELSE 0]

\* get_random_collection_log_item, after its scrape_collection_log call
\* has returned data: the pool, and an entry of it or None
GetRandomCollectionLogItem(data, include_duplicates, choice) ==
    LET pool == IF include_duplicates THEN data.items ELSE data.unique_items
    IN  IF pool # <<>>
        THEN [mode |-> IF include_duplicates THEN "all" ELSE "unique",
              pool |-> pool, outcome |-> "entry", choice |-> choice]
        ELSE [mode |-> IF include_duplicates THEN "all" ELSE "unique",
              pool |-> pool, outcome |-> "returned None", choice |-> 0]

\* the selection when scrape_collection_log raised: the exception leaves
\* get_random_collection_log_item
ScrapeRaised(mode) ==
    [mode |-> mode, pool |-> <<>>, outcome |-> "scrape raised", choice |-> 0]

\* get_random_collection_log_item, which calls scrape_collection_log
\* itself; pick is the draw of random.choice, where there is one
Selected(out, include_duplicates, pick) ==
    IF ~out.returned
    THEN ScrapeRaised(IF include_duplicates THEN "all" ELSE "unique")
    ELSE LET pool == IF include_duplicates THEN out.data.items
                     ELSE out.data.unique_items
         IN  GetRandomCollectionLogItem(out.data, include_duplicates,
                IF pick \in Choices(pool) THEN pick ELSE Len(pool))

\* the draws followed: the first entry and the third, or else the last
Picks == {1, 3}

\* get_random_collection_log_item(include_duplicates)
CallGetRandomCollectionLogItem ==
    /\ CanScrape
    /\ \E include_duplicates \in BOOLEAN, document \in ResolveDocuments,
          fetch_ok \in BOOLEAN, pick \in Picks :
          LET out == ScrapeCollectionLog(catalogFile, document, fetch_ok)
              n == Counted(scrapes, out)
          IN  /\ catalogFile' = out.file
              /\ scrapeCall' = out.call
              /\ scrapes' = n
              /\ selectCall' =
                    Selected(out, include_duplicates, pick)
                    @@ [instance |-> IF out.returned THEN n.loaded + n.built
                                     ELSE 0,
                        fallback |-> FALSE]
    /\ UNCHANGED <<available_unowned_items, preloadCall, collection_log_resource>>
    /\ UNCHANGED <<templeVars, itemVars>>

\* what get_collection_log_status hands get_temple_mode_item: an error
\* of the service, another error, or a snapshot
SelectStatuses ==
    {ErrorBody(NotSynced), ConnectError,
     WithStats(ItemsBody(<<<<"1001", Count(0)>>, <<"1002", Count(3)>>>>))}

\* get_temple_mode_item(rsn), from the data get_collection_log_status
\* returned on
CallGetTempleModeItem ==
    /\ collection_log_resource.loaded
    /\ CanScrape
    /\ \E data \in SelectStatuses, document \in ResolveDocuments,
          fetch_ok \in BOOLEAN, pick \in Picks :
          IF ClassifyResult(data) = "ok" /\ available_unowned_items # <<>>
          THEN /\ selectCall' =
                     [mode |-> "temple", pool |-> available_unowned_items,
                      outcome |-> "entry",
                      choice |-> IF pick \in Choices(available_unowned_items)
                                 THEN pick ELSE Len(available_unowned_items),
                      instance |-> 0, fallback |-> FALSE]
               /\ UNCHANGED <<catalogVars, scrapes>>
          ELSE LET out == ScrapeCollectionLog(catalogFile, document, fetch_ok)
                   n == Counted(scrapes, out)
               IN  /\ catalogFile' = out.file
                   /\ scrapeCall' = out.call
                   /\ scrapes' = n
                   /\ selectCall' =
                         [Selected(out, FALSE, pick) EXCEPT !.mode = "temple"]
                         @@ [instance |-> IF out.returned
                                          THEN n.loaded + n.built ELSE 0,
                             fallback |-> TRUE]
    /\ UNCHANGED <<available_unowned_items, preloadCall, collection_log_resource>>
    /\ UNCHANGED <<templeVars, itemVars>>

\* ------------------------------------------------------------------------
\* The resolution of unowned items
\* ------------------------------------------------------------------------

\* the app has loaded the catalog (app.py, 'Load the data silently')
ResolveInit ==
    /\ \E document \in ResolveDocuments :
          /\ catalogFile = File(BuildCacheData(document))
          /\ scrapeCall = [kind |-> "built", data |-> BuildCacheData(document),
                           fetched |-> TRUE, wrote |-> TRUE]
          /\ collection_log_resource = Resource(BuildCacheData(document), 1)
    /\ scrapes = [loaded |-> 0, built |-> 1]
    /\ TempleStart
    /\ ItemStart
    /\ SessionStart

ResolveNext ==
    \/ LoadCollectionLogDataCall
    \/ PreloadUnownedItems
    \/ Restart

SpecResolve == ResolveInit /\ [][ResolveNext]_vars

\* ------------------------------------------------------------------------
\* The item lookup service on its own
\* ------------------------------------------------------------------------

ItemInit ==
    /\ CatalogStart
    /\ TempleStart
    /\ ItemStart
    /\ AppStart

ItemNext ==
    \/ CallGetItem
    \/ Restart

SpecItem == ItemInit /\ [][ItemNext]_vars

\* ------------------------------------------------------------------------
\* Properties of the resolution of unowned items
\* ------------------------------------------------------------------------

\* the entries of mapping order whose count is 0 (a missing count reads
\* as 0, as item_data.get("count", 0) has it)
RECURSIVE IdsWithCountZero(_, _)
IdsWithCountZero(items, k) ==
    IF k > Len(items) THEN <<>>
    ELSE (IF items[k][2].isdict
             /\ (~items[k][2].has_count \/ items[k][2].count = 0)
          THEN <<items[k][1]>> ELSE <<>>)
         \o IdsWithCountZero(items, k + 1)

\* what one looked-up id contributes to the result
RECURSIVE ExpectedItems(_, _, _, _)
ExpectedItems(ids, details, entries, k) ==
    IF k > Len(ids) THEN <<>>
    ELSE LET matches == {i \in 1..Len(entries) :
                            Lower(entries[i].name) = Lower(details[k].name)}
             one == IF ~details[k].found THEN <<>>
                    ELSE IF matches # {}
                    THEN <<entries[CHOOSE i \in matches : \A j \in matches : j <= i]>>
                    ELSE <<[id |-> IntOf(ids[k]), name |-> details[k].name,
                            category |-> "Unknown", subcategory |-> "Unknown",
                            icon |-> details[k].icon,
                            sources |-> <<[category |-> "Temple Mode",
                                           subcategory |-> "Unowned Item"]>>]>>
         IN  one \o ExpectedItems(ids, details, entries, k + 1)

Preloaded == preloadCall.rsn \in ResolveRsns

\* C10: after preload_unowned_items over a snapshot, the ids looked up
\* are the ids with count 0 in the order of the mapping, and the result
\* holds, in that order, one element for each id whose lookup gave an
\* item - the catalog entry of the same name up to case when there is one,
\* else the item tagged Temple Mode / Unowned Item - and nothing for an id
\* whose lookup gave none.
C10_ResolvedInOrderDroppingFailures ==
    (Preloaded /\ IsSnapshot(preloadCall.progress)) =>
        /\ preloadCall.unowned_ids =
              IdsWithCountZero(preloadCall.progress.data.items, 1)
        /\ Len(preloadCall.details) = Len(preloadCall.unowned_ids)
        /\ available_unowned_items =
              ExpectedItems(preloadCall.unowned_ids, preloadCall.details,
                            scrapeCall.data.unique_items, 1)

\* three unowned ids: a catalog entry matched up to case, a dropped id
\* and a tagged item, in the order of the mapping
C10_Witness ==
    /\ Preloaded
    /\ preloadCall.unowned_ids = <<"1003", "1001", "1002">>
    /\ ~preloadCall.details[2].found
    /\ Len(available_unowned_items) = 2
    /\ available_unowned_items[1].name = "Tanzanite fang"
    /\ Len(available_unowned_items[1].sources) = 2
    /\ available_unowned_items[2].name = "Abyssal whip"
    /\ available_unowned_items[2].sources =
           <<[category |-> "Temple Mode", subcategory |-> "Unowned Item"]>>

\* ------------------------------------------------------------------------
\* Resolving the same list twice
\* ------------------------------------------------------------------------

\* a preload_unowned_items call that follows another one in the same
\* process, over the same progress snapshot and the same unowned ids
SecondRun ==
    /\ Preloaded
    /\ Preloaded'
    /\ IsSnapshot(preloadCall.progress)
    /\ preloadCall'.progress = preloadCall.progress
    /\ preloadCall'.unowned_ids = preloadCall.unowned_ids

NoneRaised(call) == \A k \in 1..Len(call.outcomes) : call.outcomes[k] # "raised"

\* C11, for the ids whose lookup did not raise: a second run over the same
\* snapshot and catalog finds every id that the first run found or did not
\* find in item_cache, asks the database for none of them and gets the same
\* details; when no lookup of the first run raised, the resolved list is
\* the same list in the same order and the database is not asked at all.
C11_SecondRunUsesCache ==
    [][SecondRun =>
          /\ \A k \in 1..Len(preloadCall.unowned_ids) :
                preloadCall.outcomes[k] # "raised" =>
                   /\ preloadCall'.outcomes[k] = "hit"
                   /\ preloadCall'.details[k] = preloadCall.details[k]
          /\ NoneRaised(preloadCall) =>
                /\ available_unowned_items' = available_unowned_items
                /\ \A k \in 1..Len(preloadCall'.outcomes) :
                      preloadCall'.outcomes[k] = "hit"]_vars

\* C11 as stated, for every id of the list, those whose lookup raised on
\* the first run included: the second run gives the same list and asks
\* the database for nothing.
C11_SecondRunSameListNoCalls ==
    [][SecondRun =>
          /\ available_unowned_items' = available_unowned_items
          /\ \A k \in 1..Len(preloadCall'.outcomes) :
                preloadCall'.outcomes[k] = "hit"]_vars

\* a run over three ids, one of them unknown to the database, that was
\* served from item_cache alone
C11_Witness ==
    /\ Preloaded
    /\ preloadCall.unowned_ids = <<"1003", "1001", "1002">>
    /\ preloadCall.outcomes = <<"hit", "hit", "hit">>
    /\ ~preloadCall.details[2].found
    /\ Len(available_unowned_items) = 2

\* ------------------------------------------------------------------------
\* Properties of the item lookup cache
\* ------------------------------------------------------------------------

\* item_cache as a restart at this moment would load it
Reloaded == LoadItemCache(itemCacheFile)

\* C12: every id that get_item has given an entry (a record or a
\* tombstone) is in the cache file with that entry, so that a restart at
\* any moment reloads it.
C12_ResolvedIdsSurviveRestart ==
    \A item_id \in ItemIds :
       item_cache[item_id].cached => Reloaded[item_id] = item_cache[item_id]

\* a get_item call has just been made
GetItemStep == itemCall'.item_id \in ItemIds

\* C17: over any get_item call, an id that has an entry in item_cache (a
\* record or a tombstone) keeps that entry unchanged; a call for such an
\* id returns the entry and does not ask the database; and a call whose
\* lookup raised writes nothing, neither to item_cache nor to its file.
C17_ItemCacheIsWriteOnce ==
    [][GetItemStep =>
          /\ \A item_id \in ItemIds :
                item_cache[item_id].cached =>
                   item_cache'[item_id] = item_cache[item_id]
          /\ item_cache[itemCall'.item_id].cached =>
                /\ itemCall'.outcome = "hit"
                /\ ~itemCall'.looked_up
                /\ itemCall'.result = item_cache[itemCall'.item_id].item
          /\ itemCall'.outcome = "raised" =>
                /\ item_cache' = item_cache
                /\ itemCacheFile' = itemCacheFile
                /\ ~item_cache'[itemCall'.item_id].cached]_vars

\* a call answered from a tombstone, while another id has a record and a
\* third, whose lookup can only have raised, has no entry
C17_Witness ==
    /\ itemCall.item_id = "1001"
    /\ itemCall.outcome = "hit"
    /\ ~itemCall.result.found
    /\ item_cache["1002"] = Cached(Standardized("1002"))
    /\ ~item_cache["1003"].cached

\* ------------------------------------------------------------------------
\* The app with its selection
\* ------------------------------------------------------------------------

\* the first preload_unowned_items of a session, in the runs where no
\* lookup raises and the item cache is saved
SelectPreload ==
    /\ preloadCall = NoPreloadCall
    /\ PreloadUnownedItems
    /\ NoneRaised(preloadCall')
    /\ item_cache' = LoadItemCache(itemCacheFile')

SelectInit ==
    /\ CatalogStart
    /\ TempleStart
    /\ ItemStart
    /\ AppStart

SelectNext ==
    \/ LoadCollectionLogDataCall
    \/ CallGetRandomCollectionLogItem
    \/ CallGetTempleModeItem
    \/ SelectPreload
    \/ DeleteCatalogFile

SpecSelect == SelectInit /\ [][SelectNext]_vars

\* a selection was made and scrape_collection_log, where it was called,
\* returned
HasSelected == selectCall.mode # "none" /\ selectCall.outcome # "scrape raised"

C14_LoadOnce ==
    collection_log_resource.loaded =>
       /\ scrapes.loaded <= 1
       /\ scrapes.built <= 1
       /\ selectCall.instance # 0 =>
             selectCall.instance = collection_log_resource.instance

\* ------------------------------------------------------------------------
\* The scan of a fetched page
\* ------------------------------------------------------------------------

\* the page has been fetched and parsed (lines 27-31)
ScanInit ==
    /\ catalogFile = NoFile
    /\ \E document \in Documents :
          scrapeCall = [kind |-> "fetched", document |-> document]
    /\ TempleStart
    /\ ItemStart
    /\ AppStart

\* lines 34-123: collection_log and all_items are filled from the page
ScanDocument ==
    /\ scrapeCall.kind = "fetched"
    /\ LET st == Scan(scrapeCall.document, 1, ScanStart)
       IN  scrapeCall' = [kind |-> "scanned", document |-> scrapeCall.document,
                          collection_log |-> st.collection_log,
                          all_items |-> st.all_items]
    /\ UNCHANGED catalogFile
    /\ UNCHANGED <<templeVars, itemVars, appVars>>

ScanNext == ScanDocument

SpecScan == ScanInit /\ [][ScanNext]_vars

Scanned == scrapeCall.kind = "scanned"

\* the occurrences of a page read in document order, each table under the
\* last h2 before it and the last h3 with a headline since that h2
RECURSIVE InContext(_, _, _)
InContext(elements, p, st) ==
    IF p > Len(elements) THEN st.all_items
    ELSE InContext(elements, p + 1, ScanNode(st, elements[p].node))

\* C15: every occurrence the scan emits is an occurrence of a table read
\* in its context: its category is the h2 section the table lies in, which
\* has a headline that is not skipped, and its subcategory is the last h3
\* headline of that section before the table; a table before the first h3
\* of its section, or after a later h2, gives no such occurrence.
C15_OccurrencesCarryTheirContext ==
    Scanned =>
       LET expected == InContext(Elements(scrapeCall.document, 1), 1, ScanStart)
       IN  \A k \in 1..Len(scrapeCall.all_items) :
              \E j \in 1..Len(expected) : scrapeCall.all_items[k] = expected[j]

\* the occurrences of all_items placed under one category and subcategory
OccurrencesUnder(all_items, c, sub) ==
    SelectSeq(all_items,
              LAMBDA item : item.category = c /\ item.subcategory = sub)

\* C16: collection_log and all_items hold the same occurrences: every
\* occurrence of all_items has its category and subcategory in
\* collection_log, and collection_log[category][subcategory] is the
\* subsequence of all_items with that category and subcategory, whether or
\* not the page repeats a subcategory header or a section name.
C16_StructureHoldsTheOccurrences ==
    Scanned =>
       LET collection_log == scrapeCall.collection_log
           all_items == scrapeCall.all_items
       IN  /\ \A k \in 1..Len(all_items) :
                 /\ all_items[k].category \in DOMAIN collection_log
                 /\ all_items[k].subcategory
                       \in DOMAIN collection_log[all_items[k].category]
           /\ \A c \in DOMAIN collection_log :
                 \A sub \in DOMAIN collection_log[c] :
                    collection_log[c][sub] = OccurrencesUnder(all_items, c, sub)

====
